---- MODULE Spec2Model ----
(***************************************************************************)
(* Model of the predict-chat on-chain program                              *)
(* (src/programs/predict-chat-program/src/lib.rs).                         *)
(*                                                                         *)
(* Accounts are storage slots addressed by a key; each has an owner and a  *)
(* byte buffer.  The three instruction handlers are modelled on the byte   *)
(* buffers, with the Borsh encoding and decoding computed field by field.  *)
(*                                                                         *)
(* Every instruction is given as many accounts as its handler reads        *)
(* (next_account_info never fails) and Clock::get() yields the current     *)
(* slot.  A handler's outcome holds the buffers as the handler itself      *)
(* leaves them; the host's rollback of a failed instruction is not         *)
(* modelled.  Integers are kept within the range the checker computes,     *)
(* so the 64-bit fields hold small magnitudes of either sign.              *)
(***************************************************************************)
EXTENDS Integers, Sequences, FiniteSets, TLC

VARIABLES data, slot, last, settled

vars == <<data, slot, last, settled>>

(***************************************************************************)
(* Bounds of the model.                                                    *)
(***************************************************************************)
\* Largest value the clock's slot reaches.
MaxSlot == 2

(***************************************************************************)
(* Program constants.                                                      *)
(***************************************************************************)
\* solana_program::pubkey::Pubkey is a 32-byte array.
PUBKEY_BYTES == 32
\* Width in bytes of i64 and u64.
WORD_BYTES == 8
\* const MIN_ORACLE_SIZE: usize = 8;
MIN_ORACLE_SIZE == 8

(***************************************************************************)
(* Accounts.  Key 1 is owned by another program (an oracle feed), the      *)
(* other keys are owned by this program.                                   *)
(***************************************************************************)
Keys == {1, 2, 3, 4}

ProgramId == "predict_chat"

OtherProgram == "other_program"

Owner(k) == IF k = 1 THEN OtherProgram ELSE ProgramId

(***************************************************************************)
(* Bytes and fixed-width little-endian integers.                           *)
(***************************************************************************)
Zeros(n) == [i \in 1..n |-> 0]

\* The address (Pubkey) of key k: 32 bytes.
KeyOf(k) == <<k>> \o Zeros(PUBKEY_BYTES - 1)

RECURSIVE LeBytes(_, _)
LeBytes(n, w) == IF w = 0 THEN <<>> ELSE <<n % 256>> \o LeBytes(n \div 256, w - 1)

RECURSIVE LeValue(_)
LeValue(b) == IF b = <<>> THEN 0 ELSE Head(b) + 256 * LeValue(Tail(b))

\* Every bit of every byte inverted.
Complement(b) == [i \in 1..Len(b) |-> 255 - b[i]]

\* u64::to_le_bytes / u64::from_le_bytes
U64ToLeBytes(n) == LeBytes(n, WORD_BYTES)

U64FromLeBytes(b) == LeValue(b)

\* i64::to_le_bytes / i64::from_le_bytes (two's complement)
I64ToLeBytes(v) ==
    IF v >= 0 THEN LeBytes(v, WORD_BYTES)
    ELSE Complement(LeBytes((-v) - 1, WORD_BYTES))

I64FromLeBytes(b) ==
    IF b[WORD_BYTES] >= 128 THEN (-LeValue(Complement(b))) - 1
    ELSE LeValue(b)

BoolToByte(f) == IF f THEN 1 ELSE 0

(***************************************************************************)
(* Borsh encoding of the two persisted entities.                           *)
(***************************************************************************)
RoomLen == 4 * PUBKEY_BYTES + 1

PredictionLen == 2 * PUBKEY_BYTES + 3 * WORD_BYTES + 2

SerializeRoom(room) ==
    room.authority \o room.oracle_feed \o room.staking_mint
        \o room.stake_vault \o <<room.bump>>

\* Mutant: the two flags are written in the other order.
SerializePrediction_WonFirst(p) ==
    p.user \o p.room \o I64ToLeBytes(p.predicted_price)
        \o U64ToLeBytes(p.expiry_slot) \o U64ToLeBytes(p.stake)
        \o <<BoolToByte(p.won)>> \o <<BoolToByte(p.resolved)>>

SerializePrediction(p) ==
    p.user \o p.room \o I64ToLeBytes(p.predicted_price)
        \o U64ToLeBytes(p.expiry_slot) \o U64ToLeBytes(p.stake)
        \o <<BoolToByte(p.resolved)>> \o <<BoolToByte(p.won)>>

\* Field f of width w starting after offset off.
Field(b, off, w) == SubSeq(b, off + 1, off + w)

\* RoomState::try_from_slice: every byte must be consumed.
RoomTryFromSlice(b) ==
    IF Len(b) # RoomLen THEN [ok |-> FALSE]
    ELSE [ok |-> TRUE,
          value |-> [authority    |-> Field(b, 0, PUBKEY_BYTES),
                     oracle_feed  |-> Field(b, PUBKEY_BYTES, PUBKEY_BYTES),
                     staking_mint |-> Field(b, 2 * PUBKEY_BYTES, PUBKEY_BYTES),
                     stake_vault  |-> Field(b, 3 * PUBKEY_BYTES, PUBKEY_BYTES),
                     bump         |-> b[4 * PUBKEY_BYTES + 1]]]

\* Mutant: bytes after the encoded Prediction are tolerated.
PredictionTryFromSlice_AllowTrailing(b) ==
    IF Len(b) < PredictionLen THEN [ok |-> FALSE]
    ELSE IF b[PredictionLen - 1] \notin {0, 1} \/ b[PredictionLen] \notin {0, 1}
    THEN [ok |-> FALSE]
    ELSE [ok |-> TRUE,
          value |-> [user            |-> Field(b, 0, PUBKEY_BYTES),
                     room            |-> Field(b, PUBKEY_BYTES, PUBKEY_BYTES),
                     predicted_price |-> I64FromLeBytes(Field(b, 2 * PUBKEY_BYTES, WORD_BYTES)),
                     expiry_slot     |-> U64FromLeBytes(Field(b, 2 * PUBKEY_BYTES + WORD_BYTES, WORD_BYTES)),
                     stake           |-> U64FromLeBytes(Field(b, 2 * PUBKEY_BYTES + 2 * WORD_BYTES, WORD_BYTES)),
                     resolved        |-> b[PredictionLen - 1] = 1,
                     won             |-> b[PredictionLen] = 1]]

\* PredictionState::try_from_slice: every byte must be consumed and a bool
\* is the byte 0 or 1.
PredictionTryFromSlice(b) ==
    IF Len(b) # PredictionLen THEN [ok |-> FALSE]
    ELSE IF b[PredictionLen - 1] \notin {0, 1} \/ b[PredictionLen] \notin {0, 1}
    THEN [ok |-> FALSE]
    ELSE [ok |-> TRUE,
          value |-> [user            |-> Field(b, 0, PUBKEY_BYTES),
                     room            |-> Field(b, PUBKEY_BYTES, PUBKEY_BYTES),
                     predicted_price |-> I64FromLeBytes(Field(b, 2 * PUBKEY_BYTES, WORD_BYTES)),
                     expiry_slot     |-> U64FromLeBytes(Field(b, 2 * PUBKEY_BYTES + WORD_BYTES, WORD_BYTES)),
                     stake           |-> U64FromLeBytes(Field(b, 2 * PUBKEY_BYTES + 2 * WORD_BYTES, WORD_BYTES)),
                     resolved        |-> b[PredictionLen - 1] = 1,
                     won             |-> b[PredictionLen] = 1]]

\* serialize(&mut &mut buf[..]): the encoded bytes are written over the
\* front of the buffer, which never grows; the write fails when the buffer
\* is shorter than the encoding, after filling what fits.
WriteSlice(buf, bytes) ==
    IF Len(bytes) <= Len(buf)
    THEN [ok |-> TRUE, data |-> bytes \o SubSeq(buf, Len(bytes) + 1, Len(buf))]
    ELSE [ok |-> FALSE, data |-> SubSeq(bytes, 1, Len(buf))]

\* Mutant: the emptiness guard of the creating handlers is left out.
DataIsEmpty_Always(b) == TRUE

\* AccountInfo::data_is_empty
DataIsEmpty(b) == Len(b) = 0

(***************************************************************************)
(* The checks of the handlers, one definition per condition of the code.   *)
(***************************************************************************)
\* account.owner != program_id
NotOwnedByProgram(k) == Owner(k) # ProgramId

\* Mutant: the already-settled guard is left out.
IsResolved_Never(prediction) == FALSE

\* prediction_state.resolved
IsResolved(prediction) == prediction.resolved

\* Mutant: the room guard is left out.
RoomMismatch_Never(prediction, roomKey) == FALSE

\* prediction_state.room != *room_account.key
RoomMismatch(prediction, roomKey) == prediction.room # KeyOf(roomKey)

\* Mutant: the expiry comparison is reversed.
BeforeExpiry_Reversed(clockSlot, prediction) == clockSlot > prediction.expiry_slot

\* Mutant: the expiry comparison also rejects the expiry slot itself.
BeforeExpiry_Inclusive(clockSlot, prediction) == clockSlot <= prediction.expiry_slot

\* clock.slot < prediction_state.expiry_slot
BeforeExpiry(clockSlot, prediction) == clockSlot < prediction.expiry_slot

\* Mutant: a buffer of exactly MIN_ORACLE_SIZE bytes is rejected too.
OracleTooSmall_Inclusive(buf) == Len(buf) <= MIN_ORACLE_SIZE

\* oracle_price_account.data_len() < MIN_ORACLE_SIZE
OracleTooSmall(buf) == Len(buf) < MIN_ORACLE_SIZE

\* i64::from_le_bytes(oracle_price_bytes[0..8])
ObservedPrice(buf) == I64FromLeBytes(SubSeq(buf, 1, MIN_ORACLE_SIZE))

\* Mutant: a tie counts as a loss.
Won_Strict(observed, prediction) == observed > prediction.predicted_price

\* observed_price >= prediction_state.predicted_price
Won(observed, prediction) == observed >= prediction.predicted_price

(***************************************************************************)
(* Errors as they surface to the caller.                                   *)
(***************************************************************************)
\* Mutant: two variants of the enum are declared in the other order.
PredictChatError_Reordered ==
    <<"InvalidOwner", "AlreadyInitialized", "NotExpired", "AlreadySettled",
      "InvalidRoom", "OracleDataTooSmall">>

\* enum PredictChatError, in declaration order.
PredictChatError ==
    <<"InvalidOwner", "AlreadyInitialized", "AlreadySettled", "NotExpired",
      "InvalidRoom", "OracleDataTooSmall">>

IsPredictChatError(res) == \E i \in 1..Len(PredictChatError) : PredictChatError[i] = res

\* value as u32: the variant's position in the declaration, from 0.
Discriminant(e) == (CHOOSE i \in 1..Len(PredictChatError) : PredictChatError[i] = e) - 1

\* impl From<PredictChatError> for ProgramError; every other failure is a
\* ProgramError variant of its own (a Borsh failure is BorshIoError).
IntoProgramError(res) ==
    IF IsPredictChatError(res) THEN [kind |-> "Custom", code |-> Discriminant(res)]
    ELSE [kind |-> res]

(***************************************************************************)
(* The handlers.  Each takes the account buffers d and yields the result   *)
(* returned to the caller and the buffers as the handler leaves them.      *)
(***************************************************************************)
Outcome(res, d) == [result |-> res, data |-> d]

\* process_initialize_room(program_id, [room_account, authority], ...)
ProcessInitializeRoom(d, room, authority, payload) ==
    IF NotOwnedByProgram(room) THEN Outcome("InvalidOwner", d)
    ELSE IF ~DataIsEmpty(d[room]) THEN Outcome("AlreadyInitialized", d)
    ELSE LET room_state == [authority    |-> KeyOf(authority),
                            oracle_feed  |-> payload.oracle_feed,
                            staking_mint |-> payload.staking_mint,
                            stake_vault  |-> payload.stake_vault,
                            bump         |-> payload.bump]
             w == WriteSlice(d[room], SerializeRoom(room_state))
         IN  Outcome(IF w.ok THEN "Ok" ELSE "BorshIoError",
                     [d EXCEPT ![room] = w.data])

\* Mutant: the owner of the room account is not checked.
ProcessStakeAndCommit_RoomOwnerUnchecked(d, prediction, user, room, payload) ==
    IF NotOwnedByProgram(prediction) THEN Outcome("InvalidOwner", d)
    ELSE IF ~DataIsEmpty(d[prediction]) THEN Outcome("AlreadyInitialized", d)
    ELSE IF ~RoomTryFromSlice(d[room]).ok THEN Outcome("BorshIoError", d)
    ELSE LET prediction_state == [user            |-> KeyOf(user),
                                  room            |-> KeyOf(room),
                                  predicted_price |-> payload.predicted_price,
                                  expiry_slot     |-> payload.expiry_slot,
                                  stake           |-> payload.stake,
                                  resolved        |-> FALSE,
                                  won             |-> FALSE]
             w == WriteSlice(d[prediction], SerializePrediction(prediction_state))
         IN  Outcome(IF w.ok THEN "Ok" ELSE "BorshIoError",
                     [d EXCEPT ![prediction] = w.data])

\* process_stake_and_commit(program_id, [prediction_account, user, room_account], ...)
ProcessStakeAndCommit(d, prediction, user, room, payload) ==
    IF NotOwnedByProgram(prediction) THEN Outcome("InvalidOwner", d)
    ELSE IF NotOwnedByProgram(room) THEN Outcome("InvalidOwner", d)
    ELSE IF ~DataIsEmpty(d[prediction]) THEN Outcome("AlreadyInitialized", d)
    ELSE IF ~RoomTryFromSlice(d[room]).ok THEN Outcome("BorshIoError", d)
    ELSE LET prediction_state == [user            |-> KeyOf(user),
                                  room            |-> KeyOf(room),
                                  predicted_price |-> payload.predicted_price,
                                  expiry_slot     |-> payload.expiry_slot,
                                  stake           |-> payload.stake,
                                  resolved        |-> FALSE,
                                  won             |-> FALSE]
             w == WriteSlice(d[prediction], SerializePrediction(prediction_state))
         IN  Outcome(IF w.ok THEN "Ok" ELSE "BorshIoError",
                     [d EXCEPT ![prediction] = w.data])

\* Mutant: the prediction is marked resolved and persisted before the oracle
\* buffer is validated.
SettleFromOracle_WriteFirst(d, prediction, prediction_state, oracle) ==
    LET marked == [d EXCEPT ![prediction] =
                       WriteSlice(d[prediction], SerializePrediction(
                           [prediction_state EXCEPT !.resolved = TRUE])).data]
    IN  IF OracleTooSmall(d[oracle]) THEN Outcome("OracleDataTooSmall", marked)
        ELSE Outcome("Ok", [d EXCEPT ![prediction] =
                 WriteSlice(d[prediction], SerializePrediction(
                     [prediction_state EXCEPT
                          !.won = Won(ObservedPrice(d[oracle]), prediction_state),
                          !.resolved = TRUE])).data])

\* Mutant: the persisted state is rebuilt and the stake is not carried over.
SettleFromOracle_DropsStake(d, prediction, prediction_state, oracle) ==
    IF OracleTooSmall(d[oracle]) THEN Outcome("OracleDataTooSmall", d)
    ELSE LET observed_price == ObservedPrice(d[oracle])
             settled_state == [prediction_state EXCEPT
                                   !.won = Won(observed_price, prediction_state),
                                   !.resolved = TRUE,
                                   !.stake = 0]
             w == WriteSlice(d[prediction], SerializePrediction(settled_state))
         IN  IF oracle = prediction THEN Outcome("BorrowMutPanic", d)
             ELSE Outcome(IF w.ok THEN "Ok" ELSE "BorshIoError",
                          [d EXCEPT ![prediction] = w.data])

\* The end of process_settle_prediction, from the oracle length check on.
\* The borrow of the oracle buffer is still held when the prediction buffer
\* is borrowed mutably, so the handler panics when both are the same account.
SettleFromOracle(d, prediction, prediction_state, oracle) ==
    IF OracleTooSmall(d[oracle]) THEN Outcome("OracleDataTooSmall", d)
    ELSE LET observed_price == ObservedPrice(d[oracle])
             settled_state == [prediction_state EXCEPT
                                   !.won = Won(observed_price, prediction_state),
                                   !.resolved = TRUE]
             w == WriteSlice(d[prediction], SerializePrediction(settled_state))
         IN  IF oracle = prediction THEN Outcome("BorrowMutPanic", d)
             ELSE Outcome(IF w.ok THEN "Ok" ELSE "BorshIoError",
                          [d EXCEPT ![prediction] = w.data])

\* Mutant: the clock is consulted before the room is compared.
ProcessSettlePrediction_ExpiryFirst(d, clockSlot, prediction, room, oracle) ==
    IF NotOwnedByProgram(prediction) \/ NotOwnedByProgram(room)
    THEN Outcome("InvalidOwner", d)
    ELSE IF ~PredictionTryFromSlice(d[prediction]).ok THEN Outcome("BorshIoError", d)
    ELSE IF ~RoomTryFromSlice(d[room]).ok THEN Outcome("BorshIoError", d)
    ELSE LET prediction_state == PredictionTryFromSlice(d[prediction]).value IN
         IF IsResolved(prediction_state) THEN Outcome("AlreadySettled", d)
         ELSE IF BeforeExpiry(clockSlot, prediction_state) THEN Outcome("NotExpired", d)
         ELSE IF RoomMismatch(prediction_state, room) THEN Outcome("InvalidRoom", d)
         ELSE SettleFromOracle(d, prediction, prediction_state, oracle)

\* process_settle_prediction(program_id, [prediction_account, room_account,
\* oracle_price_account]) with Clock::get() yielding clockSlot.
ProcessSettlePrediction(d, clockSlot, prediction, room, oracle) ==
    IF NotOwnedByProgram(prediction) \/ NotOwnedByProgram(room)
    THEN Outcome("InvalidOwner", d)
    ELSE IF ~PredictionTryFromSlice(d[prediction]).ok THEN Outcome("BorshIoError", d)
    ELSE IF ~RoomTryFromSlice(d[room]).ok THEN Outcome("BorshIoError", d)
    ELSE LET prediction_state == PredictionTryFromSlice(d[prediction]).value IN
         IF IsResolved(prediction_state) THEN Outcome("AlreadySettled", d)
         ELSE IF RoomMismatch(prediction_state, room) THEN Outcome("InvalidRoom", d)
         ELSE IF BeforeExpiry(clockSlot, prediction_state) THEN Outcome("NotExpired", d)
         ELSE SettleFromOracle(d, prediction, prediction_state, oracle)

(***************************************************************************)
(* Inputs.                                                                 *)
(***************************************************************************)
\* Prices an oracle feed reports.
Prices == {-1, 1, 256}

\* Buffers an oracle account holds: too short, exact, and with trailing bytes.
OracleBuffers ==
    {<<>>, Zeros(MIN_ORACLE_SIZE - 1)}
        \cup {I64ToLeBytes(v) : v \in Prices}
        \cup {I64ToLeBytes(256) \o <<9>>}

\* Payloads of InitializeRoom.
RoomPayloads ==
    {[oracle_feed |-> KeyOf(1), staking_mint |-> KeyOf(2),
      stake_vault |-> KeyOf(3), bump |-> 255],
     [oracle_feed |-> KeyOf(4), staking_mint |-> KeyOf(4),
      stake_vault |-> KeyOf(1), bump |-> 0]}

\* Payloads of StakeAndCommit.
CommitPayloads ==
    {[predicted_price |-> 1, expiry_slot |-> 1, stake |-> 5],
     [predicted_price |-> -1, expiry_slot |-> 0, stake |-> 0]}

\* Keys passed as the authority of InitializeRoom.
Authorities == {1, 4}

\* Keys passed as the user of StakeAndCommit.
Users == {4}

\* Contents of the accounts the host hands to the program, built as the
\* tests of the source build them: a Room, a Prediction as committed
\* (unresolved), or nothing.
InitialRoom ==
    [authority |-> KeyOf(1), oracle_feed |-> KeyOf(1),
     staking_mint |-> KeyOf(1), stake_vault |-> KeyOf(1), bump |-> 255]

InitialPrediction(roomKey) ==
    [user |-> KeyOf(1), room |-> KeyOf(roomKey), predicted_price |-> 1,
     expiry_slot |-> 1, stake |-> 5, resolved |-> FALSE, won |-> FALSE]

InitialProgramData ==
    {<<>>, SerializeRoom(InitialRoom), SerializePrediction(InitialPrediction(2))}

\* Account 1 is an oracle feed, account 2 a Room, account 3 a Prediction for
\* that Room; the other accounts hold any of the contents above.
InitialData(k) ==
    IF NotOwnedByProgram(k) THEN OracleBuffers
    ELSE IF k = 2 THEN {SerializeRoom(InitialRoom)}
    ELSE IF k = 3 THEN {SerializePrediction(InitialPrediction(2))}
    ELSE InitialProgramData

(***************************************************************************)
(* State machine.                                                          *)
(*   data    : the buffer of each account                                  *)
(*   slot    : Clock::get().slot                                           *)
(*   last    : the most recent instruction, the storage slots it was given,*)
(*             the result it returned and the ProgramError the caller sees *)
(*   settled : the <<prediction, room>> account pairs on which             *)
(*             SettlePrediction has returned Ok                            *)
(***************************************************************************)
Returned(op, accounts, result) ==
    [op |-> op, accounts |-> accounts, result |-> result,
     error |-> IntoProgramError(result)]

Init ==
    /\ data \in {d \in [Keys -> OracleBuffers \cup InitialProgramData] :
                    \A k \in Keys : d[k] \in InitialData(k)}
    /\ slot = 0
    /\ last = Returned("None", <<>>, "Ok")
    /\ settled = {}

InitializeRoom(room, authority, payload) ==
    LET out == ProcessInitializeRoom(data, room, authority, payload) IN
    /\ data' = out.data
    /\ last' = Returned("InitializeRoom", <<room>>, out.result)
    /\ UNCHANGED <<slot, settled>>

StakeAndCommit(prediction, user, room, payload) ==
    LET out == ProcessStakeAndCommit(data, prediction, user, room, payload) IN
    /\ data' = out.data
    /\ last' = Returned("StakeAndCommit", <<prediction, room>>, out.result)
    /\ UNCHANGED <<slot, settled>>

SettlePrediction(prediction, room, oracle) ==
    LET out == ProcessSettlePrediction(data, slot, prediction, room, oracle) IN
    /\ data' = out.data
    /\ last' = Returned("SettlePrediction", <<prediction, room, oracle>>, out.result)
    /\ settled' = IF out.result = "Ok" THEN settled \cup {<<prediction, room>>}
                  ELSE settled
    /\ UNCHANGED slot

\* The clock advances.
Tick ==
    /\ slot < MaxSlot
    /\ slot' = slot + 1
    /\ last' = Returned("Tick", <<>>, "Ok")
    /\ UNCHANGED <<data, settled>>

\* The owner of an oracle account rewrites its buffer.
OracleUpdate(oracle, buf) ==
    /\ NotOwnedByProgram(oracle)
    /\ data' = [data EXCEPT ![oracle] = buf]
    /\ last' = Returned("OracleUpdate", <<oracle>>, "Ok")
    /\ UNCHANGED <<slot, settled>>

Next ==
    \/ \E room \in Keys, authority \in Authorities, payload \in RoomPayloads :
           InitializeRoom(room, authority, payload)
    \/ \E prediction \in Keys, user \in Users, room \in Keys, payload \in CommitPayloads :
           StakeAndCommit(prediction, user, room, payload)
    \/ \E prediction \in Keys, room \in Keys, oracle \in Keys :
           SettlePrediction(prediction, room, oracle)
    \/ Tick
    \/ \E oracle \in Keys, buf \in OracleBuffers : OracleUpdate(oracle, buf)

Spec == Init /\ [][Next]_vars

(***************************************************************************)
(* The codec on its own, as tests::serialize_room_and_prediction drives    *)
(* it: a value is serialized into a zeroed buffer of exactly its encoded   *)
(* length and read back with try_from_slice.  last keeps the value and     *)
(* what was restored from the buffer.                                      *)
(***************************************************************************)
RoundTripKeys == {KeyOf(1), KeyOf(4)}

RoundTripRooms ==
    [authority : RoundTripKeys, oracle_feed : RoundTripKeys,
     staking_mint : {KeyOf(2)}, stake_vault : {KeyOf(3)}, bump : {0, 1, 255}]

RoundTripPredictions ==
    [user : {KeyOf(4)}, room : RoundTripKeys,
     predicted_price : {-257, -1, 0, 1, 50000}, expiry_slot : {0, 1000},
     stake : {10000}, resolved : BOOLEAN, won : BOOLEAN]

Restored(op, account, value, restored) ==
    [op |-> op, accounts |-> <<account>>, result |-> "Ok",
     error |-> IntoProgramError("Ok"), value |-> value, restored |-> restored]

CodecInit ==
    /\ data = [k \in Keys |-> <<>>]
    /\ slot = 0
    /\ last = Returned("None", <<>>, "Ok")
    /\ settled = {}

RoundTripRoom(account, room) ==
    LET written == WriteSlice(Zeros(Len(SerializeRoom(room))), SerializeRoom(room))
    IN /\ written.ok
       /\ data' = [data EXCEPT ![account] = written.data]
       /\ last' = Restored("RoundTripRoom", account, room,
                           RoomTryFromSlice(written.data))
       /\ UNCHANGED <<slot, settled>>

RoundTripPrediction(account, prediction) ==
    LET written == WriteSlice(Zeros(Len(SerializePrediction(prediction))),
                              SerializePrediction(prediction))
    IN /\ written.ok
       /\ data' = [data EXCEPT ![account] = written.data]
       /\ last' = Restored("RoundTripPrediction", account, prediction,
                           PredictionTryFromSlice(written.data))
       /\ UNCHANGED <<slot, settled>>

CodecNext ==
    \/ \E room \in RoundTripRooms : RoundTripRoom(2, room)
    \/ \E prediction \in RoundTripPredictions : RoundTripPrediction(3, prediction)

SpecCodec == CodecInit /\ [][CodecNext]_vars

(***************************************************************************)
(* A caller that resubmits.  The first SettlePrediction is sent with any   *)
(* accounts; while the prediction is not settled the caller sends the same *)
(* instruction again, and the cluster's clock advances in between.  Here   *)
(* last is the caller's latest call and its result: the clock advancing    *)
(* does not touch it.  The clock always advances and the caller does not   *)
(* give up, hence the weak fairness of both.                               *)
(***************************************************************************)
FirstSubmit(prediction, room, oracle) ==
    /\ last.op = "None"
    /\ SettlePrediction(prediction, room, oracle)

Resubmit ==
    /\ last.op = "SettlePrediction"
    /\ last.result # "Ok"
    /\ SettlePrediction(last.accounts[1], last.accounts[2], last.accounts[3])

Advance ==
    /\ slot < MaxSlot
    /\ slot' = slot + 1
    /\ UNCHANGED <<data, last, settled>>

ResubmitNext ==
    \/ \E prediction \in Keys, room \in Keys, oracle \in Keys :
           FirstSubmit(prediction, room, oracle)
    \/ Resubmit
    \/ Advance

SpecResubmit ==
    Init /\ [][ResubmitNext]_vars /\ WF_vars(Resubmit) /\ WF_vars(Advance)

(***************************************************************************)
(* Vocabulary of the properties.                                           *)
(***************************************************************************)
Instructions == {"InitializeRoom", "StakeAndCommit", "SettlePrediction"}

\* The accounts of the most recent SettlePrediction.
SettledPrediction == last.accounts[1]

SettledRoom == last.accounts[2]

SettledOracle == last.accounts[3]

\* The Prediction or Room a buffer holds, if it holds one.
HoldsPrediction(b) == PredictionTryFromSlice(b).ok

PredictionIn(b) == PredictionTryFromSlice(b).value

HoldsRoom(b) == RoomTryFromSlice(b).ok

RoomIn(b) == RoomTryFromSlice(b).value

HoldsResolved(b) == HoldsPrediction(b) /\ PredictionIn(b).resolved

HoldsUnresolved(b) == HoldsPrediction(b) /\ ~PredictionIn(b).resolved

\* The signed 64-bit integer whose little-endian two's complement encoding
\* is the first eight bytes of a buffer.
PriceRange == (-300) .. 300

SignedPriceOf(b) ==
    CHOOSE v \in PriceRange : I64ToLeBytes(v) = SubSeq(b, 1, 8)

(***************************************************************************)
(* C1. After SettlePrediction has returned Ok for a prediction slot and a  *)
(* room slot, every later SettlePrediction on the same two slots returns   *)
(* AlreadySettled, whatever the oracle account and the clock, and leaves   *)
(* the prediction slot as it was.                                          *)
(***************************************************************************)
C1_SecondSettleFails ==
    [][(/\ last'.op = "SettlePrediction"
        /\ <<last'.accounts[1], last'.accounts[2]>> \in settled)
       => (/\ last'.result = "AlreadySettled"
           /\ data'[last'.accounts[1]] = data[last'.accounts[1]])]_vars

C1_Witness ==
    /\ last.op = "SettlePrediction"
    /\ <<SettledPrediction, SettledRoom>> \in settled
    /\ last.result = "AlreadySettled"
    /\ slot >= PredictionIn(data[SettledPrediction]).expiry_slot
    /\ Len(data[SettledOracle]) > MIN_ORACLE_SIZE

(***************************************************************************)
(* C2. Whenever SettlePrediction returns Ok, the prediction stored         *)
(* afterwards has resolved = true and won = (observed >= predicted_price), *)
(* where observed is the first 8 bytes of the oracle buffer read as a      *)
(* little-endian signed 64-bit integer and the comparison is signed.       *)
(***************************************************************************)
C2_WonIsObservedAtLeastPredicted ==
    (last.op = "SettlePrediction" /\ last.result = "Ok")
    => /\ HoldsResolved(data[SettledPrediction])
       /\ PredictionIn(data[SettledPrediction]).won
              = (SignedPriceOf(data[SettledOracle])
                     >= PredictionIn(data[SettledPrediction]).predicted_price)

\* A settlement at a tie: the observed price equals the predicted price.
C2_Witness ==
    /\ last.op = "SettlePrediction"
    /\ last.result = "Ok"
    /\ SignedPriceOf(data[SettledOracle])
           = PredictionIn(data[SettledPrediction]).predicted_price
    /\ PredictionIn(data[SettledPrediction]).won

(***************************************************************************)
(* C3. Under a clock that never decreases, every prediction with           *)
(* resolved = true has expiry_slot <= the current slot: no prediction is   *)
(* settled before its expiry.                                              *)
(***************************************************************************)
C3_ResolvedOnlyAfterExpiry ==
    \A k \in Keys :
        HoldsResolved(data[k]) => PredictionIn(data[k]).expiry_slot <= slot

\* A prediction settled in the very slot of its expiry.
C3_Witness ==
    /\ last.op = "SettlePrediction"
    /\ last.result = "Ok"
    /\ HoldsResolved(data[SettledPrediction])
    /\ PredictionIn(data[SettledPrediction]).expiry_slot = slot

(***************************************************************************)
(* C4. For a program-owned unresolved prediction whose room field is the   *)
(* address of the supplied program-owned, well-formed room slot,           *)
(* SettlePrediction returns NotExpired if and only if the current slot is  *)
(* strictly less than expiry_slot.                                         *)
(***************************************************************************)
C4_NotExpiredIffBeforeExpiry ==
    [][(/\ last'.op = "SettlePrediction"
        /\ Owner(last'.accounts[1]) = ProgramId
        /\ Owner(last'.accounts[2]) = ProgramId
        /\ HoldsUnresolved(data[last'.accounts[1]])
        /\ HoldsRoom(data[last'.accounts[2]])
        /\ PredictionIn(data[last'.accounts[1]]).room = KeyOf(last'.accounts[2]))
       => ((last'.result = "NotExpired")
              <=> (slot < PredictionIn(data[last'.accounts[1]]).expiry_slot))]_vars

\* Settlement succeeds in the slot equal to expiry_slot.
C4_Witness ==
    /\ last.op = "SettlePrediction"
    /\ last.result = "Ok"
    /\ slot = PredictionIn(data[SettledPrediction]).expiry_slot
    /\ SignedPriceOf(data[SettledOracle])
           < PredictionIn(data[SettledPrediction]).predicted_price

(***************************************************************************)
(* C5 as stated. SettlePrediction given a room slot whose address differs  *)
(* from the prediction's room field returns InvalidRoom whatever the       *)
(* resolved flag, the clock and the oracle buffer (both slots being        *)
(* program-owned and well-formed).                                         *)
(***************************************************************************)
ForeignRoomSettle ==
    /\ last.op = "SettlePrediction"
    /\ Owner(SettledPrediction) = ProgramId
    /\ Owner(SettledRoom) = ProgramId
    /\ HoldsPrediction(data[SettledPrediction])
    /\ HoldsRoom(data[SettledRoom])
    /\ PredictionIn(data[SettledPrediction]).room # KeyOf(SettledRoom)

C5_Original_AlwaysInvalidRoom ==
    ForeignRoomSettle => last.result = "InvalidRoom"

(***************************************************************************)
(* C5 amended. Under the same conditions SettlePrediction returns          *)
(* InvalidRoom when the prediction is unresolved, whatever the clock and   *)
(* the oracle buffer, and AlreadySettled when it is resolved.              *)
(***************************************************************************)
C5_InvalidRoomUnlessSettled ==
    ForeignRoomSettle
    => last.result = (IF PredictionIn(data[SettledPrediction]).resolved
                      THEN "AlreadySettled" ELSE "InvalidRoom")

\* InvalidRoom although the prediction has expired and the oracle is usable.
C5_Witness ==
    /\ ForeignRoomSettle
    /\ last.result = "InvalidRoom"
    /\ slot >= PredictionIn(data[SettledPrediction]).expiry_slot
    /\ Len(data[SettledOracle]) >= MIN_ORACLE_SIZE

(***************************************************************************)
(* C6. An instruction that returns an error leaves every storage slot      *)
(* byte-for-byte unchanged.                                                *)
(***************************************************************************)
C6_ErrorWritesNothing ==
    [][(last'.op \in Instructions /\ last'.result # "Ok") => data' = data]_vars

\* Scenario C: a settlement rejected with NotExpired, resolved still false.
C6_Witness ==
    /\ last.op = "SettlePrediction"
    /\ last.result = "NotExpired"
    /\ HoldsUnresolved(data[SettledPrediction])
    /\ ~PredictionIn(data[SettledPrediction]).won

(***************************************************************************)
(* C7 as stated. InitializeRoom on a program-owned, empty room slot        *)
(* returns Ok for every authority and payload, and the slot then holds the *)
(* Room made of the authority's address and the four payload fields.       *)
(***************************************************************************)
C7_InitializeRoomOnEmptySlot ==
    [][\A room \in Keys, authority \in Authorities, payload \in RoomPayloads :
         (/\ last'.op = "InitializeRoom"
          /\ Owner(room) = ProgramId
          /\ DataIsEmpty(data[room])
          /\ InitializeRoom(room, authority, payload))
         => (/\ last'.result = "Ok"
             /\ HoldsRoom(data'[room])
             /\ RoomIn(data'[room]) =
                    [authority    |-> KeyOf(authority),
                     oracle_feed  |-> payload.oracle_feed,
                     staking_mint |-> payload.staking_mint,
                     stake_vault  |-> payload.stake_vault,
                     bump         |-> payload.bump])]_vars

(***************************************************************************)
(* C8 as stated. StakeAndCommit on an empty program-owned prediction slot  *)
(* and a program-owned room slot holding a Room returns Ok for every       *)
(* payload, and the prediction slot then holds the unresolved Prediction   *)
(* of the user, the room slot's address and the payload.                   *)
(***************************************************************************)
C8_StakeAndCommitOnEmptySlot ==
    [][\A prediction \in Keys, user \in Users, room \in Keys,
          payload \in CommitPayloads :
         (/\ last'.op = "StakeAndCommit"
          /\ Owner(prediction) = ProgramId
          /\ Owner(room) = ProgramId
          /\ DataIsEmpty(data[prediction])
          /\ HoldsRoom(data[room])
          /\ StakeAndCommit(prediction, user, room, payload))
         => (/\ last'.result = "Ok"
             /\ HoldsPrediction(data'[prediction])
             /\ PredictionIn(data'[prediction]) =
                    [user            |-> KeyOf(user),
                     room            |-> KeyOf(room),
                     predicted_price |-> payload.predicted_price,
                     expiry_slot     |-> payload.expiry_slot,
                     stake           |-> payload.stake,
                     resolved        |-> FALSE,
                     won             |-> FALSE])]_vars

(***************************************************************************)
(* C9. Once a slot holds a Prediction with resolved = true, no instruction *)
(* changes any byte of it, and StakeAndCommit on it (with program-owned    *)
(* slots) returns AlreadyInitialized.                                      *)
(***************************************************************************)
C9_ResolvedIsFinal ==
    [][last'.op \in Instructions
       => /\ \A k \in Keys : data'[k] # data[k] => ~HoldsResolved(data[k])
          /\ (/\ last'.op = "StakeAndCommit"
              /\ Owner(last'.accounts[1]) = ProgramId
              /\ Owner(last'.accounts[2]) = ProgramId
              /\ HoldsResolved(data[last'.accounts[1]]))
             => last'.result = "AlreadyInitialized"]_vars

\* StakeAndCommit refused on a settled prediction slot.
C9_Witness ==
    /\ last.op = "StakeAndCommit"
    /\ last.result = "AlreadyInitialized"
    /\ HoldsResolved(data[last.accounts[1]])
    /\ HoldsRoom(data[last.accounts[2]])

(***************************************************************************)
(* C10. A program-owned slot that holds a Room is never modified by any    *)
(* instruction, and InitializeRoom on a program-owned slot that holds data *)
(* returns AlreadyInitialized and leaves its bytes unchanged.              *)
(***************************************************************************)
C10_RoomNeverModified ==
    [][last'.op \in Instructions
       => /\ \A k \in Keys :
                 data'[k] # data[k] => ~(Owner(k) = ProgramId /\ HoldsRoom(data[k]))
          /\ (/\ last'.op = "InitializeRoom"
              /\ Owner(last'.accounts[1]) = ProgramId
              /\ ~DataIsEmpty(data[last'.accounts[1]]))
             => (/\ last'.result = "AlreadyInitialized"
                 /\ data'[last'.accounts[1]] = data[last'.accounts[1]])]_vars

\* Scenario D: InitializeRoom refused on a slot that holds a Room.
C10_Witness ==
    /\ last.op = "InitializeRoom"
    /\ last.result = "AlreadyInitialized"
    /\ HoldsRoom(data[last.accounts[1]])
    /\ RoomIn(data[last.accounts[1]]) = InitialRoom

(***************************************************************************)
(* C11. For a settlement that passes the ownership, decode, already-       *)
(* settled, room and expiry checks, SettlePrediction returns               *)
(* OracleDataTooSmall if and only if the oracle buffer is shorter than 8   *)
(* bytes, and then writes nothing (resolved and won stay as they were).    *)
(***************************************************************************)
C11_ShortOracleRejected ==
    [][(/\ last'.op = "SettlePrediction"
        /\ Owner(last'.accounts[1]) = ProgramId
        /\ Owner(last'.accounts[2]) = ProgramId
        /\ HoldsUnresolved(data[last'.accounts[1]])
        /\ HoldsRoom(data[last'.accounts[2]])
        /\ PredictionIn(data[last'.accounts[1]]).room = KeyOf(last'.accounts[2])
        /\ slot >= PredictionIn(data[last'.accounts[1]]).expiry_slot)
       => /\ (last'.result = "OracleDataTooSmall")
                 <=> (Len(data[last'.accounts[3]]) < 8)
          /\ (Len(data[last'.accounts[3]]) < 8) => data' = data]_vars

\* A 7-byte oracle buffer rejected after expiry; the prediction is unresolved.
C11_Witness ==
    /\ last.op = "SettlePrediction"
    /\ last.result = "OracleDataTooSmall"
    /\ Len(data[SettledOracle]) = 7
    /\ HoldsUnresolved(data[SettledPrediction])
    /\ ~PredictionIn(data[SettledPrediction]).won
    /\ slot >= PredictionIn(data[SettledPrediction]).expiry_slot

(***************************************************************************)
(* C12. Each domain error reaches the caller as the custom error code of   *)
(* its position: InvalidOwner 0, AlreadyInitialized 1, AlreadySettled 2,   *)
(* NotExpired 3, InvalidRoom 4, OracleDataTooSmall 5; a decode failure is  *)
(* never reported as a custom code.                                        *)
(***************************************************************************)
ErrorCodeTable ==
    [InvalidOwner |-> 0, AlreadyInitialized |-> 1, AlreadySettled |-> 2,
     NotExpired |-> 3, InvalidRoom |-> 4, OracleDataTooSmall |-> 5]

C12_ErrorCodesByPosition ==
    last.op \in Instructions
    => /\ last.result \in DOMAIN ErrorCodeTable
              => (/\ last.error.kind = "Custom"
                  /\ last.error.code = ErrorCodeTable[last.result])
       /\ last.result \notin DOMAIN ErrorCodeTable => last.error.kind # "Custom"
       /\ last.result = "Ok" <=> last.error.kind = "Ok"

\* NotExpired seen by the caller as custom code 3.
C12_Witness ==
    /\ last.op = "SettlePrediction"
    /\ last.result = "NotExpired"
    /\ last.error.kind = "Custom"
    /\ last.error.code = 3

\* A decode failure seen by the caller as a Borsh error, not a custom code.
C12_DecodeFailureWitness ==
    /\ last.op = "SettlePrediction"
    /\ last.result = "BorshIoError"
    /\ last.error.kind = "BorshIoError"

(***************************************************************************)
(* C13. Round trip: a Room or Prediction value serialized into a buffer of *)
(* exactly its encoded length is restored by try_from_slice equal in every *)
(* field, and the buffer read back from the account decodes to it too.     *)
(***************************************************************************)
C13_RoundTrip ==
    /\ last.op = "RoundTripRoom"
           => /\ last.restored.ok
              /\ \A f \in DOMAIN last.value : last.restored.value[f] = last.value[f]
              /\ DOMAIN last.restored.value = DOMAIN last.value
              /\ Len(data[last.accounts[1]]) = RoomLen
              /\ RoomIn(data[last.accounts[1]]) = last.value
    /\ last.op = "RoundTripPrediction"
           => /\ last.restored.ok
              /\ \A f \in DOMAIN last.value : last.restored.value[f] = last.value[f]
              /\ DOMAIN last.restored.value = DOMAIN last.value
              /\ Len(data[last.accounts[1]]) = PredictionLen
              /\ PredictionIn(data[last.accounts[1]]) = last.value

\* A Prediction with a negative price and distinct flags went through the
\* round trip while the Room buffer holds a Room with bump 255.
C13_Witness ==
    /\ last.op = "RoundTripPrediction"
    /\ last.value.predicted_price = -257
    /\ last.value.resolved /\ ~last.value.won
    /\ last.restored.ok
    /\ HoldsRoom(data[2])
    /\ RoomIn(data[2]).bump = 255

(***************************************************************************)
(* C14. SettlePrediction evaluates its checks in a fixed order: ownership  *)
(* of the prediction and room slots, decoding of the Prediction and of the *)
(* Room, already settled, room match, expiry, oracle length.  The result   *)
(* is the error of the first check that fails, whatever the later checks   *)
(* would say; when none fails the result is none of these errors.          *)
(***************************************************************************)
SettleChecks ==
    <<"InvalidOwner", "BorshIoError", "AlreadySettled", "InvalidRoom",
      "NotExpired", "OracleDataTooSmall">>

\* Whether check i of SettleChecks fails for the slots p, r, o in the current
\* state.  Checks 3 to 5 read the decoded Prediction.
CheckFails(i, p, r, o) ==
    CASE i = 1 -> Owner(p) # ProgramId \/ Owner(r) # ProgramId
      [] i = 2 -> ~HoldsPrediction(data[p]) \/ ~HoldsRoom(data[r])
      [] i = 3 -> HoldsPrediction(data[p]) /\ PredictionIn(data[p]).resolved
      [] i = 4 -> HoldsPrediction(data[p]) /\ PredictionIn(data[p]).room # KeyOf(r)
      [] i = 5 -> HoldsPrediction(data[p]) /\ slot < PredictionIn(data[p]).expiry_slot
      [] i = 6 -> Len(data[o]) < 8

FailingChecks(p, r, o) == {i \in 1..Len(SettleChecks) : CheckFails(i, p, r, o)}

\* The earliest failing check, or 0 when every check passes.
FirstFailing(p, r, o) ==
    IF CheckFails(1, p, r, o) THEN 1
    ELSE IF CheckFails(2, p, r, o) THEN 2
    ELSE IF CheckFails(3, p, r, o) THEN 3
    ELSE IF CheckFails(4, p, r, o) THEN 4
    ELSE IF CheckFails(5, p, r, o) THEN 5
    ELSE IF CheckFails(6, p, r, o) THEN 6
    ELSE 0

C14_FirstFailingCheckWins ==
    [][last'.op = "SettlePrediction"
       => LET p == last'.accounts[1]
              r == last'.accounts[2]
              o == last'.accounts[3]
          IN  IF FirstFailing(p, r, o) = 0
              THEN \A i \in 1..Len(SettleChecks) : last'.result # SettleChecks[i]
              ELSE last'.result = SettleChecks[FirstFailing(p, r, o)]]_vars

\* A call where the room does not match, the clock is before expiry and the
\* oracle buffer is too short returned the error of the earliest of the three.
C14_Witness ==
    /\ last.op = "SettlePrediction"
    /\ last.result = "InvalidRoom"
    /\ FirstFailing(SettledPrediction, SettledRoom, SettledOracle) = 4
    /\ FailingChecks(SettledPrediction, SettledRoom, SettledOracle) = {4, 5, 6}

\* A resolved prediction given a foreign room and a short oracle buffer.
C14_SettledWitness ==
    /\ last.op = "SettlePrediction"
    /\ last.result = "AlreadySettled"
    /\ FailingChecks(SettledPrediction, SettledRoom, SettledOracle) = {3, 4, 6}

(***************************************************************************)
(* C15. A settlement that sets won reads the price from the account the    *)
(* Room records as its oracle_feed: whenever SettlePrediction succeeds,    *)
(* the address of the oracle slot it was given equals room.oracle_feed.    *)
(* The handler decodes the Room but never compares its oracle_feed with    *)
(* the key of the oracle account, so this does not hold.                   *)
(***************************************************************************)
C15_PriceFromRoomOracleFeed ==
    (last.op = "SettlePrediction" /\ last.result = "Ok")
    => KeyOf(SettledOracle) = RoomIn(data[SettledRoom]).oracle_feed

(***************************************************************************)
(* C16. A successful SettlePrediction changes only the resolved and won    *)
(* fields of the prediction slot: user, room, predicted_price, expiry_slot *)
(* and stake are the same before and after, and every other slot (the      *)
(* room, the oracle, other predictions) keeps its bytes.                   *)
(***************************************************************************)
CommitFields == {"user", "room", "predicted_price", "expiry_slot", "stake"}

C16_SettleChangesOnlyFlags ==
    [][(last'.op = "SettlePrediction" /\ last'.result = "Ok")
       => LET p == last'.accounts[1]
          IN  /\ last'.accounts[2] # p
              /\ last'.accounts[3] # p
              /\ \A k \in Keys \ {p} : data'[k] = data[k]
              /\ HoldsPrediction(data[p])
              /\ HoldsPrediction(data'[p])
              /\ \A f \in CommitFields :
                     PredictionIn(data'[p])[f] = PredictionIn(data[p])[f]]_vars

\* Prediction 3 was settled as won against room 2 while account 4 holds
\* another prediction, still unresolved.
C16_Witness ==
    /\ last.op = "SettlePrediction"
    /\ last.result = "Ok"
    /\ SettledPrediction = 3
    /\ PredictionIn(data[3]).resolved
    /\ PredictionIn(data[3]).won
    /\ PredictionIn(data[3]).stake = 5
    /\ HoldsUnresolved(data[4])
    /\ HoldsRoom(data[SettledRoom])

(***************************************************************************)
(* C17. StakeAndCommit returns InvalidOwner when the prediction slot or    *)
(* the room slot is not owned by the program; otherwise AlreadyInitialized *)
(* when the prediction slot is non-empty; otherwise a decode error when    *)
(* the room slot does not decode as a Room.  Hence a StakeAndCommit that   *)
(* succeeds leaves a Prediction whose room field is the address of a       *)
(* program-owned slot holding a well-formed Room.                          *)
(***************************************************************************)
C17_CommitNeedsOwnedWellFormedRoom ==
    [][last'.op = "StakeAndCommit"
       => LET p == last'.accounts[1]
              r == last'.accounts[2]
              owned == Owner(p) = ProgramId /\ Owner(r) = ProgramId
          IN  /\ ~owned => last'.result = "InvalidOwner"
              /\ (owned /\ Len(data[p]) # 0) => last'.result = "AlreadyInitialized"
              /\ (owned /\ Len(data[p]) = 0 /\ ~HoldsRoom(data[r]))
                     => last'.result = "BorshIoError"
              /\ last'.result # "Ok" => data' = data
              /\ last'.result = "Ok"
                     => /\ HoldsUnresolved(data'[p])
                        /\ PredictionIn(data'[p]).room = KeyOf(r)
                        /\ Owner(r) = ProgramId
                        /\ HoldsRoom(data'[r])]_vars

\* A commit into an empty program-owned slot was refused because the slot
\* given as room holds a Prediction, not a Room.
C17_Witness ==
    /\ last.op = "StakeAndCommit"
    /\ last.result = "BorshIoError"
    /\ Owner(last.accounts[1]) = ProgramId
    /\ Owner(last.accounts[2]) = ProgramId
    /\ Len(data[last.accounts[1]]) = 0
    /\ HoldsPrediction(data[last.accounts[2]])

\* A commit naming a room slot owned by another program was refused.
C17_ForeignRoomWitness ==
    /\ last.op = "StakeAndCommit"
    /\ last.result = "InvalidOwner"
    /\ Owner(last.accounts[1]) = ProgramId
    /\ Owner(last.accounts[2]) # ProgramId

(***************************************************************************)
(* C18. NotExpired is recoverable by resubmission: when a settlement was   *)
(* rejected with NotExpired and the caller resubmits it with the same      *)
(* prediction and room slots and an oracle buffer of at least 8 bytes once *)
(* the clock has reached expiry_slot, the resubmitted call succeeds and    *)
(* the prediction is resolved.  (A step that leaves the clock alone and    *)
(* keeps the accounts of a rejected call is a resubmission.)  The handler  *)
(* panics instead when the oracle account is the prediction account        *)
(* itself, so this does not hold.                                          *)
(***************************************************************************)
C18_ResubmissionSucceedsAtExpiry ==
    [][(/\ last.op = "SettlePrediction"
        /\ last.result = "NotExpired"
        /\ last'.op = "SettlePrediction"
        /\ last'.accounts = last.accounts
        /\ slot' = slot
        /\ slot >= PredictionIn(data[last.accounts[1]]).expiry_slot
        /\ Len(data[last.accounts[3]]) >= 8)
       => /\ last'.result = "Ok"
          /\ HoldsResolved(data'[last.accounts[1]])]_vars

\* The same claim as a leads-to: a rejected settlement that is resubmitted
\* with an oracle buffer of at least 8 bytes is eventually resolved.  The
\* caller never changes the accounts it submits.
RejectedNotExpired ==
    /\ last.op = "SettlePrediction"
    /\ last.result = "NotExpired"
    /\ Len(data[last.accounts[3]]) >= 8

SubmittedIsResolved ==
    /\ last.op = "SettlePrediction"
    /\ HoldsResolved(data[last.accounts[1]])

C18_EventuallyResolved == RejectedNotExpired ~> SubmittedIsResolved

\* What does hold: with an oracle account other than the prediction account
\* the resubmitted settlement is eventually resolved.
C18_EventuallyResolvedUnlessAliased ==
    (RejectedNotExpired /\ last.accounts[3] # last.accounts[1]) ~> SubmittedIsResolved

(***************************************************************************)
(* C19. The outcome of SettlePrediction depends on the oracle slot only    *)
(* through its first 8 bytes: from any one state, settling the same        *)
(* prediction and room against two oracle slots that both hold at least 8  *)
(* bytes and agree on the first 8 (whatever their owner, address, length   *)
(* or trailing bytes) returns the same result and leaves the same data.    *)
(* The address matters when it is that of the prediction account, whose    *)
(* buffer cannot be borrowed mutably while it is read as the oracle, so    *)
(* this does not hold.                                                     *)
(***************************************************************************)
SamePrice(o1, o2) ==
    /\ Len(data[o1]) >= 8
    /\ Len(data[o2]) >= 8
    /\ SubSeq(data[o1], 1, 8) = SubSeq(data[o2], 1, 8)

C19_OracleOnlyByFirstEightBytes ==
    \A p \in Keys, r \in Keys, o1 \in Keys, o2 \in Keys :
        SamePrice(o1, o2)
        => ProcessSettlePrediction(data, slot, p, r, o1)
               = ProcessSettlePrediction(data, slot, p, r, o2)

(***************************************************************************)
(* C20. No slot content decodes both as a Room and as a Prediction: a Room *)
(* is exactly 129 bytes and a Prediction exactly 90.  SettlePrediction     *)
(* given a Room-holding slot as prediction, a Prediction-holding slot as   *)
(* room, or one slot in both positions never succeeds and writes nothing,  *)
(* and so does StakeAndCommit given a Prediction-holding slot as room;     *)
(* when the handler's earlier checks pass (both slots program-owned and,   *)
(* for StakeAndCommit, an empty prediction slot) the failure is the decode *)
(* error.                                                                  *)
(***************************************************************************)
Confused(op, p, r) ==
    \/ /\ op = "SettlePrediction"
       /\ HoldsRoom(data[p]) \/ HoldsPrediction(data[r]) \/ p = r
    \/ /\ op = "StakeAndCommit"
       /\ HoldsPrediction(data[r])

C20_NoTypeConfusion ==
    [][/\ RoomLen = 129
       /\ PredictionLen = 90
       /\ \A k \in Keys : ~(HoldsRoom(data[k]) /\ HoldsPrediction(data[k]))
       /\ (last'.op \in {"SettlePrediction", "StakeAndCommit"}
           /\ Confused(last'.op, last'.accounts[1], last'.accounts[2]))
          => LET p == last'.accounts[1]
                 r == last'.accounts[2]
             IN  /\ last'.result # "Ok"
                 /\ data' = data
                 /\ (/\ Owner(p) = ProgramId
                     /\ Owner(r) = ProgramId
                     /\ last'.op = "StakeAndCommit" => Len(data[p]) = 0)
                    => last'.result = "BorshIoError"]_vars

\* A settlement given the Room slot in the prediction position was refused
\* with the decode error.
C20_Witness ==
    /\ last.op = "SettlePrediction"
    /\ last.result = "BorshIoError"
    /\ Owner(SettledPrediction) = ProgramId
    /\ Owner(SettledRoom) = ProgramId
    /\ HoldsRoom(data[SettledPrediction])
    /\ SettledRoom # SettledPrediction

====
